---- MODULE Spec2Model ----
(***************************************************************************)
(* Model of the AQI-IN cleaning pipeline:                                  *)
(*   clean_data.py                 clean_openaq_data, parse_coverage_      *)
(*                                 datetimes, interpolate_openaq_data      *)
(*   daily_station_timeseries.py   split_by_station                        *)
(*                                                                         *)
(* Tables are sequences of rows; a row is a function from column names to  *)
(* cell values.  Numeric cells are exact rationals <<num, den>> (den > 0,  *)
(* reduced); the missing marker NaN is <<0, 0>>.  Dates are day numbers    *)
(* 1..MaxDay, NaT is 0; a raw timestamp is a number of hours (day * 24 +   *)
(* hour), -1 when it cannot be parsed.                                     *)
(***************************************************************************)
EXTENDS Integers, Sequences, FiniteSets, TLC

VARIABLES
    pc,            \* position in clean_openaq_data / split_by_station
    df_raw,        \* data/openaq_combined_data.csv
    df_locations,  \* data/locations.csv
    df,            \* the frame being transformed (df, df_analysis)
    columns,       \* df.columns
    index,         \* df.index values; <<>> while it is the default RangeIndex
    raw_file,      \* data/cleaned_openaq_not_interpolated.csv
    final_file,    \* data/cleaned_openaq.csv
    log,           \* clean_data.log
    input_file,    \* the file split_by_station reads
    todo,          \* stations still to be processed by the loop
    station,       \* the loop variable of split_by_station
    df_station,    \* the per-station frame (rows carry their index as "date")
    files          \* data/stations/<clean_name>.csv

vars == <<pc, df_raw, df_locations, df, columns, index, raw_file, final_file,
          log, input_file, todo, station, df_station, files>>

cleanVars == <<df_raw, df_locations, df, columns, index, raw_file, final_file, log>>
splitVars == <<input_file, todo, station, df_station, files>>

-----------------------------------------------------------------------------
(* Bounds of the model *)

MaxRows == 3
MaxDay == 4
MaxMeta == 2

-----------------------------------------------------------------------------
(* Numeric cells *)

NaN == <<0, 0>>
NaT == 0
Null == <<"NaN">>
NoFile == [columns |-> {}, rows |-> <<>>, written |-> FALSE]

IsNaN(v) == v[2] = 0

Abs(n) == IF n < 0 THEN -n ELSE n

RECURSIVE GCD(_, _)
GCD(a, b) == IF b = 0 THEN a ELSE GCD(b, a % b)

Norm(n, d) == LET g == GCD(Abs(n), d) IN <<n \div g, d \div g>>

R(n) == <<n, 1>>

RAdd(a, b) == Norm(a[1] * b[2] + b[1] * a[2], a[2] * b[2])
RSub(a, b) == Norm(a[1] * b[2] - b[1] * a[2], a[2] * b[2])
RScale(a, n, d) == Norm(a[1] * n, a[2] * d)

IsNeg(v) == ~IsNaN(v) /\ v[1] < 0
IsNonNeg(v) == ~IsNaN(v) /\ v[1] >= 0

Min(S) == CHOOSE x \in S : \A y \in S : x <= y
Max(S) == CHOOSE x \in S : \A y \in S : x >= y

Restrict(r, S) == [k \in (DOMAIN r) \cap S |-> r[k]]
Extend(r, k, v) == [x \in (DOMAIN r) \cup {k} |-> IF x = k THEN v ELSE r[x]]

RECURSIVE Flatten(_)
Flatten(ss) == IF ss = <<>> THEN <<>> ELSE Head(ss) \o Flatten(Tail(ss))

\* the rows of s at the positions S, in their order
RECURSIVE Pick(_, _)
Pick(s, S) ==
    IF S = {} THEN <<>>
    ELSE LET i == CHOOSE x \in S : \A y \in S : x <= y
         IN  <<s[i]>> \o Pick(s, S \ {i})

-----------------------------------------------------------------------------
(* Column sets *)

aqi_column_list ==
    <<"value", "summary.min", "summary.q02", "summary.q25", "summary.median",
      "summary.q75", "summary.q98", "summary.max", "summary.avg", "summary.sd">>

aqi_columns == {aqi_column_list[i] : i \in DOMAIN aqi_column_list}

datetime_cols ==
    {"coverage.datetimeFrom.utc", "coverage.datetimeFrom.local",
     "coverage.datetimeTo.utc", "coverage.datetimeTo.local"}

raw_columns ==
    aqi_columns \cup datetime_cols \cup
    {"sensor_id", "parameter.name", "parameter.units", "parameter.id",
     "flagInfo.hasFlags", "coordinates", "period.label", "period.interval"}

location_columns ==
    {"s_id", "s_name", "id", "name", "locality", "provider.id", "provider.name",
     "distance", "datetimeFirst.utc", "datetimeLast.utc"}

final_cols ==
    aqi_columns \cup
    {"sensor_id", "from_utc_date", "from_local_date", "to_utc_date",
     "to_local_date", "parameter", "provider.id", "provider.name", "id",
     "name", "locality"}

columns_to_drop ==
    datetime_cols \cup
    {"coordinates", "flagInfo.hasFlags", "parameter.id", "parameter.name",
     "parameter.units", "period.label", "period.interval", "datetimeFirst.utc",
     "datetimeLast.utc", "distance", "s_id"}

-----------------------------------------------------------------------------
(* pandas operations used by the code *)

\* pd.merge(left, right, left_on='sensor_id', right_on='s_id', how='left'):
\* every left row once per matching right row, in left order; a left row
\* without a match once, with the right columns null.
Joined(l, r) == [k \in (DOMAIN l) \cup {"s_id", "name"} |->
                    IF k \in DOMAIN l THEN l[k] ELSE r[k]]

NoMatch == [s_id |-> NaN, name |-> Null]

Matches(l, right) ==
    Pick(right, {j \in 1..Len(right) : right[j]["s_id"] = l["sensor_id"]})

\* mutant of MergeLeft: how='inner', a row without a match is dropped
MergeInner(left, right) ==
    Flatten([i \in 1..Len(left) |->
        LET m == Matches(left[i], right)
        IN  [j \in 1..Len(m) |-> Joined(left[i], m[j])]])

MergeLeft(left, right) ==
    Flatten([i \in 1..Len(left) |->
        LET m == Matches(left[i], right)
        IN  IF m = <<>> THEN <<Joined(left[i], NoMatch)>>
            ELSE [j \in 1..Len(m) |-> Joined(left[i], m[j])]])

\* pd.to_datetime(..., errors="coerce") followed by .dt.date
DateOf(ts) == IF ts < 0 THEN NaT ELSE ts \div 24

\* mutant of Sanitize: clip(lower=0), a negative entry becomes 0
SanitizeClip(v) == IF IsNeg(v) THEN R(0) ELSE v

\* df.where(df >= 0, np.nan) on one cell
Sanitize(v) == IF IsNonNeg(v) THEN v ELSE NaN

\* (df[col] < 0).sum()
NegCount(rows, c) == Cardinality({i \in 1..Len(rows) : IsNeg(rows[i][c])})

Column(rows, c) == [i \in 1..Len(rows) |-> rows[i][c]]

ValidPos(y) == {i \in 1..Len(y) : ~IsNaN(y[i])}

\* np.argsort(indices[valid]) orders the known points by time; the order of
\* points with equal time is left open by the sort.  np.interp reads, of every
\* group of equal times, only the first and the last point of that order:
\* <<first, last>>, or <<0, 0>> for a time that has no known point.
EndPairs(G) ==
    IF G = {} THEN {<<0, 0>>}
    ELSE {p \in G \X G : (p[1] = p[2]) <=> (Cardinality(G) = 1)}

RECURSIVE ArgsortEnds(_, _, _)
ArgsortEnds(idx, V, d) ==
    IF d = 0 THEN {<<>>}
    ELSE {Append(e, p) : e \in ArgsortEnds(idx, V, d - 1),
                         p \in EndPairs({i \in V : idx[i] = d})}

\* the outcomes of the argsort for one column; nothing is sorted when the
\* column has no missing or no known entry
TieOrders(idx, y) ==
    IF ValidPos(y) = {} \/ ValidPos(y) = 1..Len(y) THEN {<<>>}
    ELSE ArgsortEnds(idx, ValidPos(y), MaxDay)

\* np.interp(x, xp, fp) at one point x, with xp/fp the known points in the
\* order `ends`
NpInterp(x, y, ends) ==
    LET KT == {t \in 1..Len(ends) : ends[t] # <<0, 0>>}
        lo == {t \in KT : t <= x}
        hi == {t \in KT : t > x}
    IN  IF lo = {} THEN y[ends[Min(KT)][1]]
        ELSE IF hi = {} THEN y[ends[Max(lo)][2]]
        ELSE IF Max(lo) = x THEN y[ends[x][2]]
        ELSE LET t0 == Max(lo)
                 t1 == Min(hi)
                 y0 == y[ends[t0][2]]
                 y1 == y[ends[t1][1]]
             IN  RAdd(y0, RScale(RSub(y1, y0), x - t0, t1 - t0))

\* mutant of InterpolateTime: limit_direction='both', the leading entries are
\* filled as well
InterpolateTimeBoth(idx, y, ends) ==
    IF ValidPos(y) = {} \/ ValidPos(y) = 1..Len(y) THEN y
    ELSE [i \in 1..Len(y) |->
            IF ~IsNaN(y[i]) THEN y[i] ELSE NpInterp(idx[i], y, ends)]

\* Series.interpolate(method='time') with the defaults limit_direction=
\* 'forward', limit_area=None: the entries before the first known entry (in
\* row order) stay missing, every other missing entry gets np.interp's value.
InterpolateTime(idx, y, ends) ==
    IF ValidPos(y) = {} \/ ValidPos(y) = 1..Len(y) THEN y
    ELSE [i \in 1..Len(y) |->
            IF ~IsNaN(y[i]) THEN y[i]
            ELSE IF i < Min(ValidPos(y)) THEN NaN
            ELSE NpInterp(idx[i], y, ends)]

\* one argsort outcome per distinct set of known positions: columns with the
\* same known positions are sorted alike
TieChoices(idx, rows) ==
    LET masks == {ValidPos(Column(rows, c)) : c \in aqi_columns}
        T(m) == TieOrders(idx, [i \in 1..Len(rows) |-> IF i \in m THEN R(0) ELSE NaN])
    IN  {f \in [masks -> UNION {T(m) : m \in masks}] : \A m \in masks : f[m] \in T(m)}

\* df[aqi_columns].interpolate(method='time')
InterpolateFrame(idx, rows, tie) ==
    [i \in 1..Len(rows) |->
        [k \in DOMAIN rows[i] |->
            IF k \in aqi_columns
            THEN InterpolateTime(idx, Column(rows, k), tie[ValidPos(Column(rows, k))])[i]
            ELSE rows[i][k]]]

\* groupby(index).mean(numeric_only=True): the mean of the known values, and
\* missing when the group has none
RECURSIVE SumOver(_, _, _)
SumOver(rows, c, S) ==
    IF S = {} THEN R(0)
    ELSE LET i == Min(S) IN RAdd(rows[i][c], SumOver(rows, c, S \ {i}))

\* mutant of MeanOf: groupby(...).sum()
SumOf(rows, c, G) ==
    LET K == {i \in G : ~IsNaN(rows[i][c])}
    IN  IF K = {} THEN NaN ELSE SumOver(rows, c, K)

MeanOf(rows, c, G) ==
    LET K == {i \in G : ~IsNaN(rows[i][c])}
    IN  IF K = {} THEN NaN ELSE RScale(SumOver(rows, c, K), 1, Cardinality(K))

\* one row per distinct non-NaT index value, ascending
GroupMean(rows) ==
    LET dates == {rows[i]["date"] : i \in 1..Len(rows)} \ {NaT}
        RECURSIVE Go(_)
        Go(D) == IF D = {} THEN <<>>
                 ELSE LET d == Min(D)
                          G == {i \in 1..Len(rows) : rows[i]["date"] = d}
                      IN  <<[k \in aqi_columns \cup {"date"} |->
                                IF k = "date" THEN d ELSE MeanOf(rows, k, G)]>>
                          \o Go(D \ {d})
    IN  Go(dates)

\* mutant of AsFreqDaily: the step is left out
AsFreqNone(rows) == rows

\* asfreq("D") on a sorted index without duplicates: reindex to every day from
\* the first to the last, new rows missing in every column
AsFreqDaily(rows) ==
    IF rows = <<>> THEN <<>>
    ELSE LET lo == rows[1]["date"]
             hi == rows[Len(rows)]["date"]
         IN  [n \in 1..(hi - lo + 1) |->
                LET d == lo + n - 1
                    at == {i \in 1..Len(rows) : rows[i]["date"] = d}
                IN  IF at # {} THEN rows[Min(at)]
                    ELSE [k \in aqi_columns \cup {"date"} |->
                            IF k = "date" THEN d ELSE NaN]]

\* station.replace(" ", "_").replace("/", "_") on a name given by its characters
CleanName(name) ==
    [i \in 1..Len(name) |-> IF name[i] \in {" ", "/"} THEN "_" ELSE name[i]]

\* df[station_col].dropna().unique(): the names in order of first appearance
RECURSIVE UniqueNames(_, _)
UniqueNames(rows, seen) ==
    IF rows = <<>> THEN <<>>
    ELSE LET n == Head(rows)["name"]
         IN  IF n = Null \/ n \in seen THEN UniqueNames(Tail(rows), seen)
             ELSE <<n>> \o UniqueNames(Tail(rows), seen \cup {n})

-----------------------------------------------------------------------------
(* The inputs *)

SensorIds == {1, 2}
StationNames == <<(<<"A", " ", "B">>), (<<"A", "/", "B">>), (<<"C">>)>>
Kinds == {"missing", "negative", "observed"}

\* the reading of the i-th row of a measurement table, of a station table
Reading(i) == 10 * i * i
StationReading(i) == 20 * i

Cell(kind, v) ==
    CASE kind = "missing" -> NaN
      [] kind = "negative" -> R(0 - v)
      [] kind = "observed" -> R(v)

\* the summary columns of a row hold another kind of entry than its value
Shift(kind) ==
    CASE kind = "missing" -> "negative"
      [] kind = "negative" -> "observed"
      [] kind = "observed" -> "missing"

RawRow(i, sid, d, kind) ==
    [k \in aqi_columns \cup {"sensor_id", "coverage.datetimeFrom.local",
                             "coverage.datetimeTo.local"} |->
        CASE k = "sensor_id" -> sid
          [] k = "coverage.datetimeFrom.local" -> IF d = NaT THEN 0 - 1 ELSE 24 * d
          [] k = "coverage.datetimeTo.local" -> IF d = NaT THEN 0 - 1 ELSE 24 * (d + 1)
          [] k = "value" -> Cell(kind, Reading(i))
          [] OTHER -> Cell(Shift(kind), Reading(i))]

LocationRow(j, sid) == [s_id |-> sid, name |-> StationNames[j]]

\* the dates of the input rows: two adjacent days, a day after a gap
Days == {1, 2, MaxDay}

\* what one input row may be: a date and a kind of entry, or a row without date
ValueChoices == (Days \X Kinds) \cup {<<NaT, "observed">>}

\* measurement tables that vary dates and entries, the sensors alternating
ValueTable(c) == [i \in DOMAIN c |-> RawRow(i, 1 + (i % 2), c[i][1], c[i][2])]

\* measurement tables that vary the sensors
KeyTable(c) == [i \in DOMAIN c |-> RawRow(i, c[i], 1 + (i % MaxDay), "observed")]

LocationTable(c) == [j \in DOMAIN c |-> LocationRow(j, c[j])]

StationRow(i, n, d, kind) ==
    [k \in aqi_columns \cup {"name", "to_local_date"} |->
        CASE k = "name" -> n
          [] k = "to_local_date" -> d
          [] k = "value" -> Cell(kind, StationReading(i))
          [] OTHER -> Cell(IF kind = "missing" THEN "observed" ELSE "missing",
                           StationReading(i))]

\* a row of a station on a date, a row without station name, a row without date
StationChoices ==
    ({StationNames[1], StationNames[2]} \X Days \X {"missing", "observed"})
    \cup {<<Null, 1, "observed">>, <<StationNames[1], NaT, "observed">>}

StationTable(c) == [i \in DOMAIN c |-> StationRow(i, c[i][1], c[i][2], c[i][3])]

InitValues ==
    /\ pc = "start"
    /\ \E len \in 1..MaxRows : \E c \in [1..len -> ValueChoices] : df_raw = ValueTable(c)
    /\ df_locations = <<LocationRow(1, 1)>>
    /\ input_file = <<>>

InitKeys ==
    /\ pc = "start"
    /\ \E len \in 1..MaxRows : \E c \in [1..len -> SensorIds] : df_raw = KeyTable(c)
    /\ \E len \in 0..MaxMeta : \E c \in [1..len -> SensorIds] : df_locations = LocationTable(c)
    /\ input_file = <<>>

InitSplit ==
    /\ pc = "split"
    /\ df_raw = <<>> /\ df_locations = <<>>
    /\ \E len \in 1..MaxRows : \E c \in [1..len -> StationChoices] : input_file = StationTable(c)

Init ==
    /\ InitValues \/ InitKeys \/ InitSplit
    /\ df = <<>> /\ columns = {} /\ index = <<>>
    /\ raw_file = NoFile /\ final_file = NoFile /\ log = <<>>
    /\ todo = <<>> /\ station = Null /\ df_station = <<>> /\ files = <<>>

-----------------------------------------------------------------------------
(* clean_openaq_data *)

Logged(msg) == Append(log, <<msg>>)

\* lines 75-79
Merge ==
    /\ pc = "start"
    /\ df' = MergeLeft(df_raw, df_locations)
    /\ columns' = raw_columns \cup location_columns
    /\ log' = log \o << <<"Loading data...">>, <<"Merging data...">> >>
    /\ pc' = "merged"
    /\ UNCHANGED <<df_raw, df_locations, index, raw_file, final_file>>
    /\ UNCHANGED splitVars

\* parse_coverage_datetimes on one row: the date-only columns
WithDates(r) ==
    [k \in (DOMAIN r) \cup {"from_local_date", "to_local_date"} |->
        CASE k = "from_local_date" -> DateOf(r["coverage.datetimeFrom.local"])
          [] k = "to_local_date" -> DateOf(r["coverage.datetimeTo.local"])
          [] OTHER -> r[k]]

\* lines 81-82
ParseDates ==
    /\ pc = "merged"
    /\ df' = [i \in 1..Len(df) |-> WithDates(df[i])]
    /\ columns' = columns \cup {"from_utc_date", "from_local_date",
                                "to_utc_date", "to_local_date"}
    /\ log' = Logged("Parsing coverage datetimes...")
    /\ pc' = "parsed"
    /\ UNCHANGED <<df_raw, df_locations, index, raw_file, final_file>>
    /\ UNCHANGED splitVars

\* lines 85-114: the parameter column, the drop, df[final_cols]
Project ==
    /\ pc = "parsed"
    /\ final_cols \subseteq (columns \cup {"parameter"}) \ columns_to_drop
    /\ columns' = final_cols
    /\ df' = [i \in 1..Len(df) |-> Restrict(df[i], final_cols)]
    /\ pc' = "projected"
    /\ UNCHANGED <<df_raw, df_locations, index, raw_file, final_file, log>>
    /\ UNCHANGED splitVars

\* lines 116-118: df_analysis.to_csv(OUTPUT_RAW_PATH, index=False)
WriteRaw ==
    /\ pc = "projected"
    /\ raw_file' = [columns |-> columns, rows |-> df, written |-> TRUE]
    /\ log' = log \o << <<"Saving cleaned data">>, <<"Done!">> >>
    /\ pc' = "raw_written"
    /\ UNCHANGED <<df_raw, df_locations, df, columns, index, final_file>>
    /\ UNCHANGED splitVars

\* the number of calls of interpolate_openaq_data so far
Calls == Cardinality({i \in 1..Len(log) : log[i] = <<"Setting datetime column as index">>})

\* interpolate_openaq_data, lines 48-57: called by clean_openaq_data on
\* df_analysis (line 119), and once more on the frame it returned.  The second
\* call finds no from_local_date column: set_index made it the index.
SetIndex ==
    /\ \/ pc = "raw_written"
       \/ pc = "final_written" /\ Calls < 2
    /\ log' = Logged("Setting datetime column as index")
    /\ IF "from_local_date" \in columns
       THEN /\ index' = [i \in 1..Len(df) |-> df[i]["from_local_date"]]
            /\ df' = [i \in 1..Len(df) |-> Restrict(df[i], columns \ {"from_local_date"})]
            /\ columns' = columns \ {"from_local_date"}
            /\ pc' = "indexed"
       ELSE /\ pc' = "KeyError"
            /\ UNCHANGED <<df, columns, index>>
    /\ UNCHANGED <<df_raw, df_locations, raw_file, final_file>>
    /\ UNCHANGED splitVars

SanitizeRow(r) == [k \in DOMAIN r |-> IF k \in aqi_columns THEN Sanitize(r[k]) ELSE r[k]]

\* line 60
SanitizeValues ==
    /\ pc = "indexed"
    /\ df' = [i \in 1..Len(df) |-> SanitizeRow(df[i])]
    /\ pc' = "sanitized"
    /\ UNCHANGED <<df_raw, df_locations, columns, index, raw_file, final_file, log>>
    /\ UNCHANGED splitVars

\* lines 62-64: the counts are taken from the frame as it is now
LogNegCounts ==
    /\ pc = "sanitized"
    /\ log' = log \o [n \in 1..Len(aqi_column_list) |->
                        <<"negatives replaced", aqi_column_list[n],
                          NegCount(df, aqi_column_list[n])>>]
    /\ pc' = "counted"
    /\ UNCHANGED <<df_raw, df_locations, df, columns, index, raw_file, final_file>>
    /\ UNCHANGED splitVars

\* lines 66-69; pandas refuses to interpolate over an index that holds NaT
Interpolate ==
    /\ pc = "counted"
    /\ IF \E i \in 1..Len(index) : index[i] = NaT
       THEN pc' = "NotImplementedError" /\ df' = df
       ELSE /\ \E tie \in TieChoices(index, df) : df' = InterpolateFrame(index, df, tie)
            /\ pc' = "returned"
    /\ UNCHANGED <<df_raw, df_locations, columns, index, raw_file, final_file, log>>
    /\ UNCHANGED splitVars

\* lines 120-122: df_analysis_final.to_csv(OUTPUT_PATH, index=False)
WriteFinal ==
    /\ pc = "returned"
    /\ Calls = 1
    /\ final_file' = [columns |-> columns, rows |-> df, written |-> TRUE]
    /\ log' = log \o << <<"Saving Interpolated data">>, <<"Done!">> >>
    /\ pc' = "final_written"
    /\ UNCHANGED <<df_raw, df_locations, df, columns, index, raw_file>>
    /\ UNCHANGED splitVars

-----------------------------------------------------------------------------
(* split_by_station *)

\* lines 14-23
Load ==
    /\ pc = "split"
    /\ df' = input_file
    /\ columns' = aqi_columns \cup {"name", "to_local_date"}
    /\ todo' = UniqueNames(input_file, {})
    /\ pc' = "loop"
    /\ UNCHANGED <<df_raw, df_locations, index, raw_file, final_file, log>>
    /\ UNCHANGED <<input_file, station, df_station, files>>

StationFrameRow(r) ==
    [k \in aqi_columns \cup {"date"} |-> IF k = "date" THEN r["to_local_date"] ELSE r[k]]

\* lines 23-27
SelectStation ==
    /\ pc = "loop"
    /\ todo # <<>>
    /\ station' = Head(todo)
    /\ todo' = Tail(todo)
    /\ df_station' = LET own == Pick(df, {i \in 1..Len(df) : df[i]["name"] = Head(todo)})
                      IN  [i \in 1..Len(own) |-> StationFrameRow(own[i])]
    /\ pc' = "selected"
    /\ UNCHANGED cleanVars
    /\ UNCHANGED <<input_file, files>>

\* line 30
Deduplicate ==
    /\ pc = "selected"
    /\ df_station' = GroupMean(df_station)
    /\ pc' = "grouped"
    /\ UNCHANGED cleanVars
    /\ UNCHANGED <<input_file, todo, station, files>>

\* line 33
Densify ==
    /\ pc = "grouped"
    /\ df_station' = AsFreqDaily(df_station)
    /\ pc' = "dense"
    /\ UNCHANGED cleanVars
    /\ UNCHANGED <<input_file, todo, station, files>>

\* lines 36-42
InterpolateStation ==
    /\ pc = "dense"
    /\ LET idx == [i \in 1..Len(df_station) |-> df_station[i]["date"]]
       IN  \E tie \in TieChoices(idx, df_station) :
                df_station' = InterpolateFrame(idx, df_station, tie)
    /\ pc' = "filled"
    /\ UNCHANGED cleanVars
    /\ UNCHANGED <<input_file, todo, station, files>>

\* lines 45-49
Persist ==
    /\ pc = "filled"
    /\ files' = Extend(files, CleanName(station), df_station)
    /\ pc' = "loop"
    /\ UNCHANGED cleanVars
    /\ UNCHANGED <<input_file, todo, station, df_station>>

\* line 51
Finish ==
    /\ pc = "loop"
    /\ todo = <<>>
    /\ pc' = "done"
    /\ UNCHANGED cleanVars
    /\ UNCHANGED splitVars

-----------------------------------------------------------------------------

Next ==
    \/ Merge \/ ParseDates \/ Project \/ WriteRaw
    \/ SetIndex \/ SanitizeValues \/ LogNegCounts \/ Interpolate \/ WriteFinal
    \/ Load \/ SelectStation \/ Deduplicate \/ Densify \/ InterpolateStation
    \/ Persist \/ Finish

Spec == Init /\ [][Next]_vars

-----------------------------------------------------------------------------
(* Properties *)

Rows(t) == 1..Len(t)

\* the step of clean_openaq_data that interpolates, and the one of
\* split_by_station
GlobalStep == pc = "counted" /\ pc' = "returned"
StationStep == pc = "dense" /\ pc' = "filled"

\* C1: the sanitizing step (line 60) leaves in every statistic column only
\* missing or non-negative entries: a negative entry becomes missing, every
\* other entry is unchanged.
C1_SanitizerStep ==
    [][(pc = "indexed" /\ pc' = "sanitized") =>
        /\ Len(df') = Len(df)
        /\ \A i \in Rows(df) : \A c \in aqi_columns :
            /\ IsNaN(df'[i][c]) \/ df'[i][c][1] >= 0
            /\ IsNeg(df[i][c]) => IsNaN(df'[i][c])
            /\ ~IsNeg(df[i][c]) => df'[i][c] = df[i][c]]_vars

\* a sanitized frame in which a negative entry has become missing and a
\* non-negative entry is still there (raw_file holds the frame as it was)
C1_Witness ==
    /\ pc = "sanitized"
    /\ \E i \in Rows(df) : \E c \in aqi_columns :
            IsNeg(raw_file.rows[i][c]) /\ IsNaN(df[i][c])
    /\ \E i \in Rows(df) : \E c \in aqi_columns :
            IsNonNeg(raw_file.rows[i][c]) /\ df[i][c] = raw_file.rows[i][c]
    /\ \E i \in Rows(df) : \E c \in aqi_columns :
            IsNaN(raw_file.rows[i][c]) /\ IsNaN(df[i][c])

MatchPairs ==
    {p \in Rows(df_raw) \X (0..Len(df_locations)) :
        IF p[2] = 0
        THEN \A j \in Rows(df_locations) :
                df_locations[j]["s_id"] # df_raw[p[1]]["sensor_id"]
        ELSE df_locations[p[2]]["s_id"] = df_raw[p[1]]["sensor_id"]}

UniqueKeys ==
    \A i, j \in Rows(df_locations) :
        df_locations[i]["s_id"] = df_locations[j]["s_id"] => i = j

\* C2 as stated: the merged table has as many rows as the measurement table,
\* for any metadata table.
C2_RowCountPreserved == pc = "merged" => Len(df) = Len(df_raw)

\* C2 amended: the merged table holds every measurement row once per matching
\* metadata row, and once with null metadata when nothing matches; when no two
\* metadata rows carry the same s_id it has exactly the rows of the measurement
\* table, in their order, with name null exactly where nothing matches.
C2_MergeLeftJoin ==
    pc = "merged" =>
        /\ Len(df) = Cardinality(MatchPairs)
        /\ UniqueKeys =>
            /\ Len(df) = Len(df_raw)
            /\ \A i \in Rows(df) :
                /\ Restrict(df[i], DOMAIN df_raw[i]) = df_raw[i]
                /\ df[i]["name"] = Null <=> <<i, 0>> \in MatchPairs

C2_Witness ==
    /\ pc = "merged"
    /\ UniqueKeys
    /\ Len(df_locations) = 1
    /\ Len(df_raw) = MaxRows
    /\ \E i \in Rows(df) : df[i]["name"] = Null
    /\ \E i \in Rows(df) : df[i]["name"] # Null

FirstKnown(y) == Min(ValidPos(y))
LastKnown(y) == Max(ValidPos(y))

NoExtrapolation(y, z) ==
    \A i \in Rows(y) :
        (IsNaN(y[i]) /\ ValidPos(y) # {} /\ (i < FirstKnown(y) \/ i > LastKnown(y)))
            => IsNaN(z[i])

FillsForward(y, z) ==
    /\ Len(z) = Len(y)
    /\ \A i \in Rows(y) :
        /\ ~IsNaN(y[i]) => z[i] = y[i]
        /\ (IsNaN(y[i]) /\ (ValidPos(y) = {} \/ i < FirstKnown(y))) => IsNaN(z[i])
        /\ (IsNaN(y[i]) /\ ValidPos(y) # {} /\ i > FirstKnown(y)) => ~IsNaN(z[i])

C4_SortedTimeWeighted ==
    [][GlobalStep =>
        /\ \A i \in 1..(Len(index') - 1) : index'[i] <= index'[i + 1]
        /\ \A c \in aqi_columns : \A i \in Rows(df) :
            LET y == Column(df, c)
                before == {k \in ValidPos(y) : index[k] < index[i]}
                after == {k \in ValidPos(y) : index[k] > index[i]}
                at == {k \in ValidPos(y) : index[k] = index[i]}
            IN  (IsNaN(y[i]) /\ before # {} /\ after # {} /\ at = {}) =>
                    \E a \in before : \E b \in after :
                        /\ \A k \in before : index[k] <= index[a]
                        /\ \A k \in after : index[k] >= index[b]
                        /\ df'[i][c] =
                            RAdd(y[a], RScale(RSub(y[b], y[a]), index[i] - index[a],
                                              index[b] - index[a]))]_vars

SeriesOf(name) == files[CleanName(name)]

ObservedDates(name) ==
    {input_file[i]["to_local_date"] :
        i \in {k \in Rows(input_file) : input_file[k]["name"] = name}} \ {NaT}

\* C5: the series written for a station holds exactly one row for each day
\* from the station's first to its last observed to_local_date, in order.
C5_DenseDailySeries ==
    (pc = "loop" /\ station # Null) =>
        LET S == SeriesOf(station)
            obs == ObservedDates(station)
        IN  IF obs = {} THEN S = <<>>
            ELSE /\ Len(S) = Max(obs) - Min(obs) + 1
                 /\ \A n \in Rows(S) : S[n]["date"] = Min(obs) + n - 1

\* a written series that spans a gap, of a station with two rows on one date
C5_Witness ==
    /\ pc = "loop" /\ station # Null
    /\ Len(SeriesOf(station)) = MaxDay
    /\ Cardinality(ObservedDates(station)) = 2
    /\ Cardinality({k \in Rows(input_file) : input_file[k]["name"] = station}) = 3

StationRowsOn(name, d) ==
    {k \in Rows(input_file) :
        input_file[k]["name"] = name /\ input_file[k]["to_local_date"] = d}

\* C6: after the grouping step the station's frame has one row per date of the
\* station's rows, and its entry in each statistic column is the arithmetic
\* mean of the known entries of that station's rows on that date (missing when
\* there is none); no other row contributes.
C6_DedupMean ==
    pc = "grouped" =>
        /\ Len(df_station) = Cardinality(ObservedDates(station))
        /\ \A d \in ObservedDates(station) :
            \E n \in Rows(df_station) :
                /\ df_station[n]["date"] = d
                /\ \A c \in aqi_columns :
                    LET K == {k \in StationRowsOn(station, d) : ~IsNaN(input_file[k][c])}
                    IN  IF K = {} THEN IsNaN(df_station[n][c])
                        ELSE /\ ~IsNaN(df_station[n][c])
                             /\ RScale(df_station[n][c], Cardinality(K), 1)
                                    = SumOver(input_file, c, K)

\* rows with 20 and 40 of one station on one date give one row with 30, while
\* another station has a row on that date
C6_Witness ==
    /\ pc = "grouped"
    /\ \E n \in Rows(df_station) :
        /\ df_station[n]["value"] = R(30)
        /\ \E a, b \in StationRowsOn(station, df_station[n]["date"]) :
                input_file[a]["value"] = R(20) /\ input_file[b]["value"] = R(40)
        /\ \E k \in Rows(input_file) :
            /\ input_file[k]["name"] \notin {station, Null}
            /\ input_file[k]["to_local_date"] = df_station[n]["date"]
            /\ ~IsNaN(input_file[k]["value"])

\* C7 as stated: interpolate_openaq_data applied to the frame it returned
\* succeeds and returns a frame equal to that one.
C7_ReapplyIsNoOp ==
    (Calls = 2 /\ pc \in {"returned", "KeyError", "NotImplementedError"}) =>
        /\ pc = "returned"
        /\ df = final_file.rows
        /\ columns = final_file.columns

\* C8 as stated: the final file has every column of the pre-interpolation
\* file, and differs from it only in entries of the statistic columns.
C8_SameSchema ==
    final_file.written =>
        /\ raw_file.columns \subseteq final_file.columns
        /\ Len(final_file.rows) = Len(raw_file.rows)
        /\ \A i \in Rows(raw_file.rows) :
                Restrict(final_file.rows[i], (DOMAIN raw_file.rows[i]) \ aqi_columns)
                    = Restrict(raw_file.rows[i], (DOMAIN raw_file.rows[i]) \ aqi_columns)

\* C9 as stated: the pre-interpolation file is written after the sanitizing
\* step, so it holds no negative entry in a statistic column.
C9_RawFileSanitized ==
    /\ pc = "indexed" => ~raw_file.written
    /\ raw_file.written =>
            \A i \in Rows(raw_file.rows) : \A c \in aqi_columns :
                ~IsNeg(raw_file.rows[i][c])

\* C10 as stated: the count logged for a column is the number of its entries
\* that were negative in the frame given to the sanitizing step (raw_file holds
\* that frame).
C10_LoggedCounts ==
    pc = "counted" =>
        \A n \in 1..Len(aqi_column_list) :
            log[Len(log) - Len(aqi_column_list) + n] =
                <<"negatives replaced", aqi_column_list[n],
                  NegCount(raw_file.rows, aqi_column_list[n])>>

====
